---- MODULE Spec2Model ----
(***************************************************************************)
(* Model of orchestrationapi/orchestration_api.go: RequestService, the     *)
(* session table (orchClientID, orcheClients), gatherDevicesScore with its *)
(* timer, collector and per-candidate worker goroutines, sortByScore,      *)
(* getExecCmds, executeApp and listenNotify.                               *)
(*                                                                         *)
(* Scores are integers (the float64 score times ten).  A notification      *)
(* channel is named by the call whose addServiceClient made it (every call *)
(* makes at most one); 0 is the nil channel.                               *)
(***************************************************************************)
EXTENDS Integers, Sequences, FiniteSets, TLC

\* ------------------------------------------------------------------ bounds

\* Largest candidate list the resolver returns while one call is in flight.
MaxCand == 2

\* Capacity of the session table, orcheClients = [1024]orcheClient{}.
TableSize == 1024

\* The callers (goroutines) that invoke RequestService, one call each.
Procs == {1, 2}

\* ---------------------------------------------------------------- constants

ERROR_NONE == "ERROR_NONE"
SERVICE_NOT_FOUND == "SERVICE_NOT_FOUND"
INTERNAL_SERVER_ERROR == "INTERNAL_SERVER_ERROR"
NOT_ALLOWED_COMMAND == "NOT_ALLOWED_COMMAND"

\* errors.New("Not Found") of getExecCmds.
NotFoundText == "Not Found"

\* TargetInfo{}: the zero value.
ZeroTarget == [ExecutionType |-> "", Target |-> ""]

\* ------------------------------------------------------------------- inputs

\* commandstore.GetInstance().GetServiceFileName: the file registered for a
\* service name.
GetServiceFileName(name) == IF name = "foo" THEN "/bin/foo" ELSE ""

Variant(t, cmd) == [ExecutionType |-> t, ExeCmd |-> cmd]

Request(infos) == [ServiceName |-> "foo", ServiceInfo |-> infos]

\* Requests a caller may pass: an allowed native command with a container
\* variant, an android command that is not the registered file, two variants of
\* one type (first match decides), and a native variant with an empty
\* command-line followed by a disallowed one.
ReqGood == Request(<<Variant("native", <<"/bin/foo", "-x">>), Variant("container", <<"img">>)>>)
ReqBad == Request(<<Variant("android", <<"/bin/evil">>)>>)
ReqTwice == Request(<<Variant("container", <<"a">>), Variant("container", <<"b">>)>>)
ReqEmptyCmd == Request(<<Variant("native", <<>>), Variant("native", <<"/bin/evil">>)>>)

ReqSet == {ReqGood, ReqBad, ReqTwice, ReqEmptyCmd}

\* dbhelper.ExecutionCandidate values the resolver may return: this host, a
\* remote peer, and a device without any endpoint.
CandLocal == [Id |-> "local", Endpoint |-> <<"10.0.0.1">>, ExecType |-> "native"]
CandRemote == [Id |-> "remote", Endpoint |-> <<"10.0.0.2", "10.0.0.3">>, ExecType |-> "container"]
CandNoEp == [Id |-> "noep", Endpoint |-> <<>>, ExecType |-> "container"]

CandSet == <<CandLocal, CandRemote, CandNoEp>>

\* networkhelper.GetIPs() of this host when it succeeds.
LocalIPs == <<"10.0.0.1">>

\* Lists of at most n candidates, each device at most once, in the order of
\* CandSet (every candidate gets a goroutine of its own, so the order of the
\* list does not enter the round).
CandLists(n) ==
    UNION {{[i \in 1..k |-> CandSet[f[i]]] :
                f \in {g \in [1..k -> 1..Len(CandSet)] :
                          \A i, j \in 1..k : i < j => g[i] < g[j]}} : k \in 0..n}

\* The error text of helper.GetDeviceInfoWithService when it fails.
ResolverErrors == {"resolver failed"}

\* Scores a scoring call may return besides the invalid-score sentinel.
ScoreSet == {5, 9}

\* orchClientID when the calls of a run begin: -1 in a fresh process, or
\* TableSize - 2 once TableSize - 1 earlier calls have taken the slots below
\* (orcheClients then lists only the slots these calls write).
StartIDs == {-1, TableSize - 2}

\* Values considered for scoringmgr.INVALID_SCORE, the reserved sentinel.
SentinelValues == {0, -1}

VARIABLES
    Ready,          \* orcheImpl.Ready
    invalidScore,   \* scoringmgr.INVALID_SCORE
    callers,        \* the callers that invoke RequestService in this run
    startID,        \* orchClientID when these calls begin
    orchClientID,   \* the process-wide counter
    orcheClients,   \* the session table: written slots, index -> orcheClient
    pc,             \* per call: position in RequestService
    req,            \* per call: the serviceInfo argument
    handle,         \* per call: the local handle
    resp,           \* per call: the returned ResponseService
    executed,       \* per call: the Execute invocations it made, in order
    listener,       \* per call: the listenNotify goroutine it started
    lchan,          \* per call: the channel its listener receives from
    posted,         \* per call: whether the backend posted its status message
    received,       \* per call: the messages its listener received
    round           \* per call: the state of its gatherDevicesScore round

vars == <<Ready, invalidScore, callers, startID, orchClientID, orcheClients, pc, req, handle,
          resp, executed, listener, lchan, posted, received, round>>

\* -------------------------------------------------------------- environment

\* Two kinds of run are explored.  With one caller the collaborators behave in
\* every way listed here.  With overlapping callers, whose calls meet only in
\* orchClientID, orcheClients and the notification channels, each call gets
\* the allowed request, the one remote candidate and collaborators that do not
\* fail; its round still races its timer.
Overlapping == Cardinality(callers) > 1

Requests == IF Overlapping THEN {ReqGood} ELSE ReqSet

\* Results of helper.GetDeviceInfoWithService: an error text, or a list.
ResolverFailures == IF Overlapping THEN {} ELSE ResolverErrors

ResolverLists == IF Overlapping THEN {<<CandRemote>>} ELSE CandLists(MaxCand)

\* Results of sysDBExecutor.Get(sysDB.ID): found or not.
IdentityLookups == IF Overlapping THEN {TRUE} ELSE BOOLEAN

\* Results of networkhelper.GetIPs(): the addresses, or none on error.
GetIPs == IF Overlapping THEN {LocalIPs} ELSE {LocalIPs, <<>>}

\* What a scoring call may do: return a score, return an error, never return.
Outcomes(sentinel) ==
    IF Overlapping THEN {[kind |-> "ok", score |-> 9]}
    ELSE {[kind |-> "ok", score |-> s] : s \in ScoreSet \cup {sentinel}}
            \cup {[kind |-> "err", score |-> 0], [kind |-> "hang", score |-> 0]}

\* --------------------------------------------------------- pure functions

\* The validation loop of RequestService: the variants in request order; a
\* native or android variant is compared by ExeCmd[0], which panics (index out
\* of range) on an empty command-line.
RECURSIVE Validate(_, _)
Validate(name, infos) ==
    IF infos = <<>> THEN "ok"
    ELSE LET info == Head(infos) IN
         IF info.ExecutionType \in {"native", "android"}
         THEN IF Len(info.ExeCmd) = 0 THEN "panic"
              ELSE IF info.ExeCmd[1] # GetServiceFileName(name) THEN "not_allowed"
              ELSE Validate(name, Tail(infos))
         ELSE Validate(name, Tail(infos))

\* Mutant: the type is not compared; the first variant's ExeCmd is returned.
getExecCmds_AnyType(execType, requestServiceInfos) ==
    IF requestServiceInfos = <<>> THEN [err |-> NotFoundText, args |-> <<>>]
    ELSE [err |-> "", args |-> Head(requestServiceInfos).ExeCmd]

\* getExecCmds: the ExeCmd of the first variant of the given type, or the
\* error "Not Found".
RECURSIVE getExecCmds(_, _)
getExecCmds(execType, requestServiceInfos) ==
    IF requestServiceInfos = <<>> THEN [err |-> NotFoundText, args |-> <<>>]
    ELSE IF execType = Head(requestServiceInfos).ExecutionType
         THEN [err |-> "", args |-> Head(requestServiceInfos).ExeCmd]
         ELSE getExecCmds(execType, Tail(requestServiceInfos))

isLocalhost(endpoints1, endpoints2) ==
    \E i \in 1..Len(endpoints1) : \E j \in 1..Len(endpoints2) : endpoints1[i] = endpoints2[j]

\* The scoring API a worker calls for a candidate: none without an endpoint,
\* GetScore for this host, DoGetScoreRemoteDevice otherwise.
ScoringCall(cand, localhosts) ==
    IF Len(cand.Endpoint) = 0 THEN "none"
    ELSE IF isLocalhost(cand.Endpoint, localhosts) THEN "GetScore"
    ELSE "DoGetScoreRemoteDevice"


\* Mutant: the error branch lacks its return and falls through to the send of
\* line 266.
WorkerReports_NoReturn(cand, out) ==
    IF Len(cand.Endpoint) = 0
    THEN <<[id |-> cand.Id, endpoint |-> "", score |-> 0, execType |-> ""]>>
    ELSE IF out.kind = "err"
    THEN <<[id |-> cand.Id, endpoint |-> cand.Endpoint[1], score |-> 0, execType |-> ""],
           [id |-> cand.Id, endpoint |-> cand.Endpoint[1], score |-> 0,
            execType |-> cand.ExecType]>>
    ELSE <<[id |-> cand.Id, endpoint |-> cand.Endpoint[1], score |-> out.score,
            execType |-> cand.ExecType]>>

\* Mutant: the report of a failed scoring call carries the execution type.
WorkerReports_ErrKeepsType(cand, out) ==
    IF Len(cand.Endpoint) = 0
    THEN <<[id |-> cand.Id, endpoint |-> "", score |-> 0, execType |-> ""]>>
    ELSE <<[id |-> cand.Id, endpoint |-> cand.Endpoint[1],
            score |-> IF out.kind = "err" THEN 0 ELSE out.score,
            execType |-> cand.ExecType]>>

\* The deviceScores one worker sends to the scores channel, in order, for a
\* candidate and the result of its scoring call (lines 249-266).
WorkerReports(cand, out) ==
    IF Len(cand.Endpoint) = 0
    THEN <<[id |-> cand.Id, endpoint |-> "", score |-> 0, execType |-> ""]>>
    ELSE IF out.kind = "err"
    THEN <<[id |-> cand.Id, endpoint |-> cand.Endpoint[1], score |-> 0, execType |-> ""]>>
    ELSE <<[id |-> cand.Id, endpoint |-> cand.Endpoint[1], score |-> out.score,
            execType |-> cand.ExecType]>>

\* Mutant: less(i, j) = score[i] < score[j], an ascending sort.
sortByScore_Ascending(deviceScores) ==
    LET n == Len(deviceScores)
        perms == {f \in [1..n -> 1..n] : \A i, j \in 1..n : i # j => f[i] # f[j]}
    IN {[i \in 1..n |-> deviceScores[f[i]]] :
            f \in {g \in perms : \A i \in 1..n : \A j \in 1..n :
                        i < j => deviceScores[g[i]].score <= deviceScores[g[j]].score}}

\* sort.Slice with less(i, j) = score[i] > score[j]: some arrangement of the
\* same elements in descending score order (sort.Slice promises no stability).
sortByScore(deviceScores) ==
    LET n == Len(deviceScores)
        perms == {f \in [1..n -> 1..n] : \A i, j \in 1..n : i # j => f[i] # f[j]}
    IN {[i \in 1..n |-> deviceScores[f[i]]] :
            f \in {g \in perms : \A i \in 1..n : \A j \in 1..n :
                        i < j => deviceScores[g[i]].score >= deviceScores[g[j]].score}}

\* ------------------------------------------------------------ initial state

NoRound ==
    [candidates |-> <<>>, count |-> 0, scores |-> <<>>, timeout |-> FALSE,
     timer |-> "off", collector |-> "off", index |-> 0, deviceScores |-> <<>>,
     worker |-> <<>>, localhosts |-> <<>>, ranked |-> <<>>, resolved |-> FALSE,
     err |-> "", identity |-> ""]

NoResp == [Message |-> "", ServiceName |-> "", RemoteTargetInfo |-> ZeroTarget]

Init ==
    /\ Ready \in BOOLEAN
    /\ invalidScore \in SentinelValues
    /\ callers \in {{1}, Procs}
    /\ startID \in StartIDs
    /\ orchClientID = startID
    /\ orcheClients = <<>>
    /\ pc = [p \in Procs |-> "idle"]
    /\ req = [p \in Procs |-> Request(<<>>)]
    /\ handle = [p \in Procs |-> -1]
    /\ resp = [p \in Procs |-> NoResp]
    /\ executed = [p \in Procs |-> <<>>]
    /\ listener = [p \in Procs |-> "none"]
    /\ lchan = [p \in Procs |-> 0]
    /\ posted = [p \in Procs |-> FALSE]
    /\ received = [p \in Procs |-> 0]
    /\ round = [p \in Procs |-> NoRound]

\* ------------------------------------------------------------ RequestService

Response(msg, name, target) ==
    [Message |-> msg, ServiceName |-> name, RemoteTargetInfo |-> target]

\* Mutant: the Ready check is skipped.
NotReady_Skipped(ready) == FALSE

\* Line 117: orcheEngine.Ready == false.
NotReady(ready) == ready = FALSE

\* Lines 115-136: the Ready check, the validation loop and, for a request that
\* passes, atomic.AddInt32(&orchClientID, 1).
Call(p, r) ==
    /\ pc[p] = "idle"
    /\ p \in callers
    /\ req' = [req EXCEPT ![p] = r]
    /\ IF NotReady(Ready)
       THEN /\ resp' = [resp EXCEPT ![p] = Response(INTERNAL_SERVER_ERROR, r.ServiceName, ZeroTarget)]
            /\ pc' = [pc EXCEPT ![p] = "done"]
            /\ UNCHANGED orchClientID
       ELSE LET v == Validate(r.ServiceName, r.ServiceInfo) IN
            IF v = "panic"
            THEN /\ pc' = [pc EXCEPT ![p] = "panic"]
                 /\ UNCHANGED <<resp, orchClientID>>
            ELSE IF v = "not_allowed"
            THEN /\ resp' = [resp EXCEPT ![p] = Response(NOT_ALLOWED_COMMAND, r.ServiceName, ZeroTarget)]
                 /\ pc' = [pc EXCEPT ![p] = "done"]
                 /\ UNCHANGED orchClientID
            ELSE /\ orchClientID' = orchClientID + 1
                 /\ pc' = [pc EXCEPT ![p] = "read"]
                 /\ UNCHANGED resp
    /\ UNCHANGED <<Ready, invalidScore, callers, startID, orcheClients, handle, executed,
                   listener, lchan, posted, received, round>>

\* Line 138: handle := int(orchClientID), a plain read of the counter.
ReadHandle(p) ==
    /\ pc[p] = "read"
    /\ handle' = [handle EXCEPT ![p] = orchClientID]
    /\ pc' = [pc EXCEPT ![p] = "alloc"]
    /\ UNCHANGED <<Ready, invalidScore, callers, startID, orchClientID, orcheClients, req, resp,
                   executed, listener, lchan, posted, received, round>>

\* addServiceClient: the slot of the table gets the service name and a fresh
\* channel; an index outside the table panics.
addServiceClient(clients, clientID, appName, ch) ==
    [i \in DOMAIN clients \cup {clientID} |->
        IF i = clientID THEN [appName |-> appName, notiChan |-> ch] ELSE clients[i]]

\* Lines 140-141: addServiceClient(handle, name) and go listenNotify().
AddClient(p) ==
    /\ pc[p] = "alloc"
    /\ IF handle[p] \in 0..(TableSize - 1)
       THEN /\ orcheClients' = addServiceClient(orcheClients, handle[p], req[p].ServiceName, p)
            /\ listener' = [listener EXCEPT ![p] = "spawned"]
            /\ pc' = [pc EXCEPT ![p] = "resolve"]
       ELSE /\ pc' = [pc EXCEPT ![p] = "panic"]
            /\ UNCHANGED <<orcheClients, listener>>
    /\ UNCHANGED <<Ready, invalidScore, callers, startID, orchClientID, req, handle, resp,
                   executed, lchan, posted, received, round>>


\* What getCandidate returns: an error text with the nil list, or a list
\* with the nil error (the empty text).
ResolverResults ==
    {[err |-> e, list |-> <<>>] : e \in ResolverFailures}
        \cup {[err |-> "", list |-> cs] : cs \in ResolverLists}

\* Mutant: the error of getCandidate is not looked at.
ResolverFailed_Ignored(err) == FALSE

\* Line 149: err != nil.
ResolverFailed(err) == err # ""

\* Lines 143-155: getCandidate; its error ends the call with the error text.
GetCandidate(p) ==
    /\ pc[p] = "resolve"
    /\ \E res \in ResolverResults :
          IF ResolverFailed(res.err)
          THEN /\ resp' = [resp EXCEPT ![p] = Response(res.err, req[p].ServiceName, ZeroTarget)]
               /\ pc' = [pc EXCEPT ![p] = "done"]
               /\ round' = [round EXCEPT ![p] = [NoRound EXCEPT !.err = res.err]]
          ELSE /\ round' = [round EXCEPT ![p] =
                      [NoRound EXCEPT !.err = res.err, !.candidates = res.list,
                                      !.resolved = TRUE]]
               /\ pc' = [pc EXCEPT ![p] = "gather"]
               /\ UNCHANGED resp
    /\ UNCHANGED <<Ready, invalidScore, callers, startID, orchClientID, orcheClients, req, handle,
                   executed, listener, lchan, posted, received>>

\* -------------------------------------------------------- gatherDevicesScore

Rest == <<Ready, invalidScore, callers, startID, orchClientID, orcheClients, req, handle,
          resp, executed, listener, lchan, posted, received>>

\* Mutant: the error of the identity lookup is not looked at.
LookupFailed_Ignored(found) == FALSE

\* Line 209: err != nil after sysDBExecutor.Get(sysDB.ID).
LookupFailed(found) == found = FALSE

\* Lines 204-268 up to wait.Wait(): the identity lookup (its failure returns
\* the nil list at once), the timer and collector goroutines, GetIPs (its
\* failure leaves no local address) and one worker goroutine per candidate.
GatherStart(p) ==
    /\ pc[p] = "gather"
    /\ \E found \in IdentityLookups :
       IF LookupFailed(found)
       THEN /\ pc' = [pc EXCEPT ![p] = "rank"]
            /\ round' = [round EXCEPT ![p].count = Len(round[p].candidates),
                                      ![p].identity = "fail"]
       ELSE \E ips \in GetIPs :
            /\ round' = [round EXCEPT
                    ![p].count = Len(round[p].candidates),
                    ![p].identity = IF found THEN "ok" ELSE "fail",
                    ![p].timer = "sleep",
                    ![p].collector = "run",
                    ![p].localhosts = ips,
                    ![p].worker = [i \in 1..Len(round[p].candidates) |->
                                      [st |-> "run", pend |-> <<>>, api |-> "none", ret |-> ""]]]
            /\ pc' = [pc EXCEPT ![p] = "wait"]
    /\ UNCHANGED Rest

\* Lines 215-218: the timer goroutine posts once to the timeout channel
\* (buffer 1) after its sleep.
Timer(p) ==
    /\ round[p].timer = "sleep"
    /\ round[p].timeout = FALSE
    /\ round' = [round EXCEPT ![p].timer = "done", ![p].timeout = TRUE]
    /\ UNCHANGED <<pc, Rest>>

\* Mutant: the collector stops one report early.
CollectorDone_OneEarly(count, index) == index >= count - 1

\* Mutant: the collector never stops on the count.
CollectorDone_Never(count, index) == count < index

\* Line 229: the collector is done when it has counted a report per candidate.
CollectorDone(count, index) == count = index

\* Lines 227-231: the collector receives a score, appends it and counts it.
CollectScore(p) ==
    /\ round[p].collector = "run"
    /\ round[p].scores # <<>>
    /\ round' = [round EXCEPT
            ![p].scores = Tail(round[p].scores),
            ![p].deviceScores = Append(round[p].deviceScores, Head(round[p].scores)),
            ![p].index = round[p].index + 1,
            ![p].collector = IF CollectorDone(round[p].count, round[p].index + 1)
                             THEN "complete" ELSE "run"]
    /\ UNCHANGED <<pc, Rest>>

\* Lines 232-233: the collector receives the timeout signal and stops.
CollectTimeout(p) ==
    /\ round[p].collector = "run"
    /\ round[p].timeout = TRUE
    /\ round' = [round EXCEPT ![p].timeout = FALSE, ![p].collector = "timedout"]
    /\ UNCHANGED <<pc, Rest>>

\* Lines 245-266 up to the send: worker i decides on its report; its scoring
\* call returns a score or an error, or never returns.
WorkerCall(p, i) ==
    /\ i \in DOMAIN round[p].worker
    /\ round[p].worker[i].st = "run"
    /\ LET cand == round[p].candidates[i]
           api == ScoringCall(cand, round[p].localhosts)
       IN \E out \in IF api = "none" THEN {[kind |-> "err", score |-> 0]}
                                     ELSE Outcomes(invalidScore) :
            round' = [round EXCEPT ![p].worker[i] =
                        IF out.kind = "hang"
                        THEN [st |-> "hung", pend |-> <<>>, api |-> api, ret |-> ""]
                        ELSE [st |-> "send", pend |-> WorkerReports(cand, out), api |-> api,
                              ret |-> IF api = "none" THEN "" ELSE out.kind]]
    /\ UNCHANGED <<pc, Rest>>

\* Mutant: the scores channel has room for one report less.
ScoresCap_OneShort(count) == count - 1

\* Line 206: make(chan deviceScore, count).
ScoresCap(count) == count

\* scores <- deviceScore{...}: a send on the channel of capacity count, which
\* blocks while the buffer is full.
WorkerSend(p, i) ==
    /\ i \in DOMAIN round[p].worker
    /\ round[p].worker[i].st = "send"
    /\ Len(round[p].scores) < ScoresCap(round[p].count)
    /\ LET w == round[p].worker[i] IN
       round' = [round EXCEPT
            ![p].scores = Append(round[p].scores, Head(w.pend)),
            ![p].worker[i] = [st |-> IF Tail(w.pend) = <<>> THEN "done" ELSE "send",
                              pend |-> Tail(w.pend), api |-> w.api, ret |-> w.ret]]
    /\ UNCHANGED <<pc, Rest>>

\* Lines 270-272: wait.Wait() returns once the collector is done.
GatherReturn(p) ==
    /\ pc[p] = "wait"
    /\ round[p].collector \in {"complete", "timedout"}
    /\ pc' = [pc EXCEPT ![p] = "rank"]
    /\ UNCHANGED <<round, Rest>>

\* ------------------------------------------------- ranking and dispatching

\* Lines 177 and 275-282: the arguments executeApp hands to Execute.
executeApp(endpoint, serviceName, args, notiChan) ==
    [endpoint |-> endpoint, serviceName |-> serviceName, args |-> args, notiChan |-> notiChan]

\* Mutant: the sentinel check of lines 166-167 is missing.
NoViableDevice_EmptyOnly(deviceScores, sentinel) == Len(deviceScores) <= 0

\* Lines 164-168: no score was collected, or the best one is the sentinel.
NoViableDevice(deviceScores, sentinel) ==
    Len(deviceScores) <= 0 \/ deviceScores[1].score = sentinel

\* Lines 163-187: sort, the two SERVICE_NOT_FOUND exits, getExecCmds and its
\* error exit, executeApp with the channel read from the session slot, and
\* the ERROR_NONE response.
Dispatch(p) ==
    /\ pc[p] = "rank"
    /\ \E deviceScores \in sortByScore(round[p].deviceScores) :
        /\ round' = [round EXCEPT ![p].ranked = deviceScores]
        /\ IF NoViableDevice(deviceScores, invalidScore)
           THEN /\ resp' = [resp EXCEPT ![p] =
                        Response(SERVICE_NOT_FOUND, req[p].ServiceName, ZeroTarget)]
                /\ UNCHANGED executed
           ELSE LET m == getExecCmds(deviceScores[1].execType, req[p].ServiceInfo) IN
                IF m.err # ""
                THEN /\ resp' = [resp EXCEPT ![p] =
                             Response(m.err, req[p].ServiceName, ZeroTarget)]
                     /\ UNCHANGED executed
                ELSE /\ executed' = [executed EXCEPT ![p] = Append(@,
                             executeApp(deviceScores[1].endpoint, req[p].ServiceName, m.args,
                                        orcheClients[handle[p]].notiChan))]
                     /\ resp' = [resp EXCEPT ![p] =
                             Response(ERROR_NONE, req[p].ServiceName,
                                      [ExecutionType |-> deviceScores[1].execType,
                                       Target |-> deviceScores[1].endpoint])]
    /\ pc' = [pc EXCEPT ![p] = "done"]
    /\ UNCHANGED <<Ready, invalidScore, callers, startID, orchClientID, orcheClients, req, handle,
                   listener, lchan, posted, received>>

\* ------------------------------------------------------------- listenNotify

\* Lines 284-286: the listener goroutine starts to receive from
\* client.notiChan, the channel the session slot holds at that moment.
ListenStart(p) ==
    /\ listener[p] = "spawned"
    /\ lchan' = [lchan EXCEPT ![p] = orcheClients[handle[p]].notiChan]
    /\ listener' = [listener EXCEPT ![p] = "waiting"]
    /\ UNCHANGED <<Ready, invalidScore, callers, startID, orchClientID, orcheClients, pc, req,
                   handle, resp, executed, posted, received, round>>

\* Mutant: the select of listenNotify sits in a for loop.
AfterReceive_Loop(n) == "waiting"

\* Lines 285-289: a select without a loop; after its one receive the
\* listener logs and returns.
AfterReceive(n) == "done"

\* The execution backend posts the status of the execution call p started on
\* the channel Execute was given (unbuffered: a waiting listener q receives
\* it), and listener q logs it and returns (lines 286-288).
Notify(p, q) ==
    /\ executed[p] # <<>>
    /\ posted[p] = FALSE
    /\ listener[q] = "waiting"
    /\ lchan[q] = executed[p][1].notiChan
    /\ posted' = [posted EXCEPT ![p] = TRUE]
    /\ received' = [received EXCEPT ![q] = @ + 1]
    /\ listener' = [listener EXCEPT ![q] = AfterReceive(received[q] + 1)]
    /\ UNCHANGED <<Ready, invalidScore, callers, startID, orchClientID, orcheClients, pc, req,
                   handle, resp, executed, lchan, round>>

\* ------------------------------------------------------------ specification

Next ==
    \/ \E p \in Procs : \E r \in Requests : Call(p, r)
    \/ \E p \in Procs : ReadHandle(p)
    \/ \E p \in Procs : AddClient(p)
    \/ \E p \in Procs : GetCandidate(p)
    \/ \E p \in Procs : GatherStart(p)
    \/ \E p \in Procs : Timer(p)
    \/ \E p \in Procs : CollectScore(p)
    \/ \E p \in Procs : CollectTimeout(p)
    \/ \E p \in Procs : \E i \in 1..(MaxCand + 1) : WorkerCall(p, i)
    \/ \E p \in Procs : \E i \in 1..(MaxCand + 1) : WorkerSend(p, i)
    \/ \E p \in Procs : GatherReturn(p)
    \/ \E p \in Procs : Dispatch(p)
    \/ \E p \in Procs : ListenStart(p)
    \/ \E p \in Procs : \E q \in Procs : Notify(p, q)

Spec == Init /\ [][Next]_vars

\* The Go scheduler runs every runnable goroutine, and time.Sleep returns: a
\* step of the caller, the collector, a worker or the timer that stays
\* enabled is taken.
RoundFairness ==
    \A p \in Procs :
        /\ WF_vars(CollectScore(p) \/ CollectTimeout(p))
        /\ WF_vars(GatherReturn(p))
        /\ \A i \in 1..(MaxCand + 1) : WF_vars(WorkerSend(p, i))

FairSpec == Spec /\ RoundFairness /\ \A p \in Procs : WF_vars(Timer(p))

\* The same without the timer: the timeout signal need never be posted.
NoTimerSpec == Spec /\ RoundFairness

\* ------------------------------------------------------------------- claims

\* The ExeCmd of the first variant, in request order, of the given type.
FirstVariantCmd(execType, infos) ==
    LET hits == {i \in 1..Len(infos) : infos[i].ExecutionType = execType}
    IN infos[CHOOSE i \in hits : \A j \in hits : i <= j].ExeCmd

\* C1: a call invokes Execute at most once, and exactly once if and only if
\* its response is ERROR_NONE; the invocation carries the response's target
\* (the endpoint of the top-ranked deviceScore), the request's service name,
\* the ExeCmd of the first variant of the response's execution type, and the
\* notification channel allocated for the session of this same call.
C1_ExecuteOnceWithWinner ==
    \A p \in Procs :
        /\ Len(executed[p]) <= 1
        /\ pc[p] = "done" => (Len(executed[p]) = 1 <=> resp[p].Message = ERROR_NONE)
        /\ executed[p] # <<>> =>
              LET e == executed[p][1] IN
              /\ e.endpoint = resp[p].RemoteTargetInfo.Target
              /\ e.endpoint = round[p].ranked[1].endpoint
              /\ e.serviceName = req[p].ServiceName
              /\ \E i \in 1..Len(req[p].ServiceInfo) :
                    req[p].ServiceInfo[i].ExecutionType = resp[p].RemoteTargetInfo.ExecutionType
              /\ e.args = FirstVariantCmd(resp[p].RemoteTargetInfo.ExecutionType,
                                          req[p].ServiceInfo)
              /\ e.notiChan = p

\* C1 without its last conjunct: everything but the channel.
C1_ExceptChannel ==
    \A p \in Procs :
        /\ Len(executed[p]) <= 1
        /\ pc[p] = "done" => (Len(executed[p]) = 1 <=> resp[p].Message = ERROR_NONE)
        /\ executed[p] # <<>> =>
              LET e == executed[p][1] IN
              /\ e.endpoint = resp[p].RemoteTargetInfo.Target
              /\ e.endpoint = round[p].ranked[1].endpoint
              /\ e.serviceName = req[p].ServiceName
              /\ \E i \in 1..Len(req[p].ServiceInfo) :
                    req[p].ServiceInfo[i].ExecutionType = resp[p].RemoteTargetInfo.ExecutionType
              /\ e.args = FirstVariantCmd(resp[p].RemoteTargetInfo.ExecutionType,
                                          req[p].ServiceInfo)

\* C5: any two calls that passed validation and obtained a handle hold
\* different handles.
C5_DistinctHandles ==
    \A p \in Procs : \A q \in Procs \ {p} :
        (handle[p] >= 0 /\ handle[q] >= 0) => handle[p] # handle[q]

Hung(p) == \E i \in DOMAIN round[p].worker : round[p].worker[i].st = "hung"

\* gatherDevicesScore of call p has returned.
Returned(p) == pc[p] \in {"rank", "done"} /\ round[p].resolved

\* C2: with N >= 1 candidates and a scoring call that never returns,
\* gatherDevicesScore returns only through the timeout signal, after the timer
\* posted it, with at most N-1 scores; and it does return.
C2_HungWorkerTimeout ==
    /\ [](\A p \in Procs :
            (Hung(p) /\ Returned(p)) =>
                /\ round[p].timer = "done"
                /\ round[p].collector = "timedout"
                /\ Len(round[p].deviceScores) <= round[p].count - 1)
    /\ \A p \in Procs : (pc[p] = "wait" /\ Hung(p)) ~> Returned(p)

C2_Witness ==
    \E p \in Procs :
        /\ Hung(p) /\ Returned(p)
        /\ round[p].count = 2
        /\ Len(round[p].deviceScores) = 1

\* The reports of candidate i that left its worker: those in the scores
\* channel and those collected.
SentBy(p, i) ==
    LET r == round[p]
        all == r.scores \o r.deviceScores
    IN Cardinality({k \in 1..Len(all) : all[k].id = r.candidates[i].Id})

\* C3: a worker whose scoring call returned (or that has no endpoint to call)
\* sends exactly one deviceScore, with score 0 for a missing endpoint or an
\* error; the collected list never has more entries than there are candidates
\* and never two entries of one candidate.
C3_OneReportPerCandidate ==
    \A p \in Procs :
        LET r == round[p] IN
        /\ Len(r.deviceScores) <= Len(r.candidates)
        /\ \A i \in 1..Len(r.deviceScores) : \A j \in 1..Len(r.deviceScores) :
              i # j => r.deviceScores[i].id # r.deviceScores[j].id
        /\ \A i \in DOMAIN r.worker :
              LET w == r.worker[i] IN
              /\ w.st \in {"run", "hung"} => SentBy(p, i) = 0
              /\ w.st = "send" =>
                    /\ SentBy(p, i) = 0
                    /\ Len(w.pend) = 1
                    /\ w.pend[1].id = r.candidates[i].Id
                    /\ (w.api = "none" \/ w.ret = "err") => w.pend[1].score = 0
              /\ w.st = "done" => SentBy(p, i) = 1

C3_Witness ==
    \E p \in Procs :
        /\ Len(round[p].candidates) = 2
        /\ Len(round[p].deviceScores) = 2
        /\ \E i \in DOMAIN round[p].worker : round[p].worker[i].api = "none"
        /\ \E i \in DOMAIN round[p].worker : round[p].worker[i].ret = "err"

AllReported(p) ==
    /\ round[p].worker # <<>>
    /\ \A i \in DOMAIN round[p].worker : round[p].worker[i].st = "done"

\* C4: for N >= 1 candidates, the collector that has received N reports is
\* done and the list holds exactly N scores; once every worker has reported
\* (a candidate without endpoint reports at once), gatherDevicesScore returns
\* even if the timeout signal is never posted.
C4_AllReportedReturns ==
    /\ [](\A p \in Procs :
            (round[p].count >= 1 /\ round[p].index = round[p].count) =>
                /\ round[p].collector = "complete"
                /\ Len(round[p].deviceScores) = round[p].count)
    /\ \A p \in Procs : (pc[p] = "wait" /\ AllReported(p)) ~> Returned(p)

C4_Witness ==
    \E p \in Procs :
        /\ Returned(p)
        /\ round[p].collector = "complete"
        /\ round[p].timer = "sleep"
        /\ Len(round[p].deviceScores) = 2
        /\ \E i \in DOMAIN round[p].worker : round[p].worker[i].api = "none"

\* C6: while the engine is not Ready a call only returns
\* INTERNAL_SERVER_ERROR with the zero target: the counter and the session
\* table stay as they were, and the call has no handle, no listener, no
\* round, no Execute and no validation panic.
C6_NotReadyNoEffect ==
    ~Ready =>
        /\ orchClientID = startID
        /\ orcheClients = <<>>
        /\ \A p \in Procs :
              /\ pc[p] \in {"idle", "done"}
              /\ pc[p] = "done" =>
                    resp[p] = Response(INTERNAL_SERVER_ERROR, req[p].ServiceName, ZeroTarget)
              /\ handle[p] = -1
              /\ listener[p] = "none"
              /\ round[p] = NoRound
              /\ executed[p] = <<>>

C6_Witness == ~Ready /\ \E p \in Procs : pc[p] = "done" /\ req[p] = ReqEmptyCmd

\* Some native or android variant has a first token that is not the file
\* registered for the service.
HasDisallowed(r) ==
    \E i \in 1..Len(r.ServiceInfo) :
        /\ r.ServiceInfo[i].ExecutionType \in {"native", "android"}
        /\ Len(r.ServiceInfo[i].ExeCmd) > 0
        /\ r.ServiceInfo[i].ExeCmd[1] # GetServiceFileName(r.ServiceName)

\* C7: a call to a Ready engine whose request has a disallowed native or
\* android variant returns NOT_ALLOWED_COMMAND with the zero target, without
\* a handle, a listener, a round or an Execute.
C7_DisallowedRejected ==
    \A p \in Procs :
        (Ready /\ pc[p] # "idle" /\ HasDisallowed(req[p])) =>
            /\ pc[p] = "done"
            /\ resp[p] = Response(NOT_ALLOWED_COMMAND, req[p].ServiceName, ZeroTarget)
            /\ handle[p] = -1
            /\ listener[p] = "none"
            /\ round[p] = NoRound
            /\ executed[p] = <<>>

\* C8: a call whose resolver returned no candidate, or whose collected scores
\* all equal the sentinel, never invokes Execute and returns
\* SERVICE_NOT_FOUND with the zero target.
C8_NoViableCandidate ==
    \A p \in Procs :
        LET r == round[p] IN
        /\ (r.resolved /\ r.candidates = <<>>) => executed[p] = <<>>
        /\ (pc[p] = "done" /\ r.resolved
              /\ (r.candidates = <<>>
                    \/ \A i \in 1..Len(r.deviceScores) : r.deviceScores[i].score = invalidScore))
             => /\ resp[p] = Response(SERVICE_NOT_FOUND, req[p].ServiceName, ZeroTarget)
                /\ executed[p] = <<>>

C8_Witness ==
    \E p \in Procs :
        /\ pc[p] = "done"
        /\ Len(round[p].deviceScores) = 2
        /\ \A i \in 1..2 : round[p].deviceScores[i].score = invalidScore
        /\ \A i \in 1..2 : round[p].worker[i].ret = "ok"

\* A single remote candidate with an endpoint and a type the request
\* declares, whose scoring call returned an error and whose report was
\* collected, the sentinel being other than 0.
C9_Case(p) ==
    /\ pc[p] = "done"
    /\ invalidScore # 0
    /\ Len(round[p].candidates) = 1
    /\ round[p].worker # <<>>
    /\ round[p].worker[1].api = "DoGetScoreRemoteDevice"
    /\ round[p].worker[1].ret = "err"
    /\ Len(round[p].deviceScores) = 1
    /\ \E i \in 1..Len(req[p].ServiceInfo) :
          req[p].ServiceInfo[i].ExecutionType = round[p].candidates[1].ExecType

\* C9 as claimed: in that case the collected score is 0 for the endpoint,
\* Execute is invoked on the endpoint and the response is ERROR_NONE with the
\* endpoint as target.
C9_ErrorScoreDispatched ==
    \A p \in Procs :
        C9_Case(p) =>
            LET ep == round[p].candidates[1].Endpoint[1] IN
            /\ round[p].deviceScores[1].score = 0
            /\ round[p].deviceScores[1].endpoint = ep
            /\ Len(executed[p]) = 1
            /\ executed[p][1].endpoint = ep
            /\ resp[p].Message = ERROR_NONE
            /\ resp[p].RemoteTargetInfo.Target = ep

\* C9 as amended: in that case the collected score is 0 for the endpoint and
\* carries no execution type; the call passes the sentinel check and, the
\* request having no variant of the empty type, fails the command match: the
\* response is "Not Found" with the zero target and Execute is not invoked.
C9_ErrorScoreNotFound ==
    \A p \in Procs :
        C9_Case(p) =>
            LET ep == round[p].candidates[1].Endpoint[1] IN
            /\ round[p].deviceScores[1].score = 0
            /\ round[p].deviceScores[1].endpoint = ep
            /\ round[p].deviceScores[1].execType = ""
            /\ (\A i \in 1..Len(req[p].ServiceInfo) : req[p].ServiceInfo[i].ExecutionType # "")
                  => /\ resp[p] = Response(NotFoundText, req[p].ServiceName, ZeroTarget)
                     /\ executed[p] = <<>>

C9_Witness ==
    \E p \in Procs :
        /\ C9_Case(p)
        /\ round[p].candidates = <<CandRemote>>
        /\ resp[p].Message = NotFoundText

\* C10: the target of an ERROR_NONE response is the endpoint and execution
\* type of a collected deviceScore that no collected deviceScore outscores.
C10_WinnerHasTopScore ==
    \A p \in Procs :
        (pc[p] = "done" /\ resp[p].Message = ERROR_NONE) =>
            \E i \in 1..Len(round[p].deviceScores) :
                /\ round[p].deviceScores[i].endpoint = resp[p].RemoteTargetInfo.Target
                /\ round[p].deviceScores[i].execType = resp[p].RemoteTargetInfo.ExecutionType
                /\ \A j \in 1..Len(round[p].deviceScores) :
                      round[p].deviceScores[i].score >= round[p].deviceScores[j].score

\* The local candidate scored 9, the remote one 5, both were collected before
\* the timeout, and the local one is the target.
C10_Witness ==
    \E p \in Procs :
        /\ pc[p] = "done"
        /\ resp[p].Message = ERROR_NONE
        /\ round[p].collector = "complete"
        /\ {round[p].candidates[i] : i \in 1..Len(round[p].candidates)} = {CandLocal, CandRemote}
        /\ \E i \in 1..2 : \E j \in 1..2 :
              /\ round[p].deviceScores[i].id = "local" /\ round[p].deviceScores[i].score = 9
              /\ round[p].deviceScores[j].id = "remote" /\ round[p].deviceScores[j].score = 5
        /\ resp[p].RemoteTargetInfo = [ExecutionType |-> "native", Target |-> "10.0.0.1"]

\* The place of the report of device id in the order the collector received
\* the reports of call p.
Arrival(p, id) ==
    CHOOSE k \in 1..Len(round[p].deviceScores) : round[p].deviceScores[k].id = id

C12_ResolverErrorReturned ==
    \A p \in Procs :
        round[p].err # "" =>
            /\ pc[p] = "done"
            /\ resp[p] = Response(round[p].err, req[p].ServiceName, ZeroTarget)
            /\ round[p] = [NoRound EXCEPT !.err = round[p].err]
            /\ executed[p] = <<>>

C12_Witness ==
    \E p \in Procs :
        /\ round[p].err \in ResolverErrors
        /\ pc[p] = "done"
        /\ handle[p] \in 0..(TableSize - 1)
        /\ resp[p].Message = round[p].err

\* C13: no call ends in a panic, which would abort the process instead of
\* returning a ResponseService.
C13_NeverPanics == \A p \in Procs : pc[p] # "panic"

\* The calls whose addServiceClient wrote the slot of handle h.
SlotWriters(h) == {c \in Procs : handle[c] = h /\ listener[c] # "none"}

\* C14: a listener receives from the channel its session slot held when it
\* began to wait; it receives at most one message, is done exactly when it
\* has received one, which the backend had posted on that channel; every
\* posted message was received by one listener; and a listener that is done
\* stays done and receives nothing more.
C14_ListenerSingleShot ==
    /\ [](\A q \in Procs :
            /\ received[q] <= 1
            /\ listener[q] = "done" <=> received[q] = 1
            /\ listener[q] \in {"waiting", "done"} => lchan[q] \in SlotWriters(handle[q])
            /\ received[q] = 1 =>
                  \E p \in Procs :
                      /\ posted[p]
                      /\ executed[p] # <<>>
                      /\ executed[p][1].notiChan = lchan[q])
    /\ [](Cardinality({p \in Procs : posted[p]})
            = Cardinality({q \in Procs : received[q] = 1}))
    /\ [][\A q \in Procs :
            listener[q] = "done" => (listener'[q] = "done" /\ received'[q] = received[q])]_vars

\* Two listeners wait on one channel, two messages were posted on it, and
\* each listener received one of them.
C14_Witness ==
    \E p \in Procs : \E q \in Procs \ {p} :
        /\ listener[p] = "done" /\ listener[q] = "done"
        /\ lchan[p] = lchan[q]
        /\ received[p] = 1 /\ received[q] = 1
        /\ posted[p] /\ posted[q]

\* A worker of call p has a report it has not sent yet, or the timer of call
\* p has not posted yet.
PendingSend(p) ==
    \/ \E i \in DOMAIN round[p].worker : round[p].worker[i].st = "send"
    \/ round[p].timer = "sleep"

\* C15: a worker that is about to send finds room in the scores channel and
\* the timer finds room in the timeout channel, whether or not the collector
\* still runs; and no worker whose scoring call returned, and no timer, stays
\* before its send forever: again and again none of them has a send pending.
C15_NoSendBlocksForever ==
    /\ [](\A p \in Procs :
            /\ \A i \in DOMAIN round[p].worker :
                  round[p].worker[i].st = "send" => ENABLED WorkerSend(p, i)
            /\ round[p].timer = "sleep" => ENABLED Timer(p))
    /\ []<>(\A p \in Procs : ~PendingSend(p))

\* The collector left by the timeout and drains nothing; both workers have
\* sent, their reports fill the scores channel, and the timer is done.
C15_Witness ==
    \E p \in Procs :
        /\ round[p].collector = "timedout"
        /\ round[p].count = 2
        /\ Len(round[p].scores) = 2
        /\ \A i \in DOMAIN round[p].worker : round[p].worker[i].st = "done"
        /\ round[p].timer = "done"

\* C16: a call whose identity lookup failed has no timer, no collector, no
\* worker (hence no scoring call) and no score; gatherDevicesScore has
\* returned the empty list, and the call, once done, has answered
\* SERVICE_NOT_FOUND with the zero target, without ranking anything and
\* without an Execute.
C16_IdentityFailure ==
    \A p \in Procs :
        round[p].identity = "fail" =>
            /\ Returned(p)
            /\ round[p].timer = "off"
            /\ round[p].collector = "off"
            /\ round[p].worker = <<>>
            /\ round[p].scores = <<>>
            /\ round[p].timeout = FALSE
            /\ round[p].deviceScores = <<>>
            /\ round[p].ranked = <<>>
            /\ executed[p] = <<>>
            /\ pc[p] = "done" =>
                  resp[p] = Response(SERVICE_NOT_FOUND, req[p].ServiceName, ZeroTarget)

C16_Witness ==
    \E p \in Procs :
        /\ round[p].identity = "fail"
        /\ Len(round[p].candidates) = 2
        /\ pc[p] = "done"
        /\ resp[p].Message = SERVICE_NOT_FOUND

\* No variant of the request of call p has the given execution type.
Undeclared(p, execType) ==
    \A i \in 1..Len(req[p].ServiceInfo) : req[p].ServiceInfo[i].ExecutionType # execType

C18_HandleInTable ==
    \A p \in Procs : handle[p] # -1 => handle[p] \in 0..(TableSize - 1)

\* C19: a round with no candidate and a successful identity lookup that has
\* returned did so because its collector completed, not through the timeout
\* signal.
C19_EmptySetReturnsAtOnce ==
    \A p \in Procs :
        (Returned(p) /\ round[p].identity = "ok" /\ round[p].candidates = <<>>)
            => /\ round[p].collector = "complete"
               /\ round[p].timer = "sleep"

\* Call p has returned after allocating its session and without an Execute.
Undispatched(p) == pc[p] = "done" /\ listener[p] # "none" /\ executed[p] = <<>>

\* The channel call p created was handed to no Execute, the listener of call
\* p has received nothing and is not done, and the slot and the counter value
\* of call p are still taken.
SessionSilent(p) ==
    /\ \A q \in Procs : \A k \in 1..Len(executed[q]) : executed[q][k].notiChan # p
    /\ listener[p] # "done"
    /\ received[p] = 0
    /\ handle[p] \in DOMAIN orcheClients
    /\ orchClientID >= handle[p]
    /\ orchClientID > startID

\* C20: a call that returned after allocating its session and without an
\* Execute keeps its channel from the backend and its listener blocked, and
\* releases neither slot nor counter value.
C20_UndispatchedSessionSilent == \A p \in Procs : Undispatched(p) => SessionSilent(p)

\* The same for calls whose handle no other call holds.
C20_WithDistinctHandles ==
    \A p \in Procs :
        (Undispatched(p) /\ \A q \in Procs \ {p} : handle[q] # handle[p]) => SessionSilent(p)

====
